---------------------------- MODULE Spec2Model ----------------------------
(***************************************************************************)
(* A model of the three demonstration notebooks of the repository:         *)
(*   - the quasi-binomial regression notebook (barley leaf blotch data),   *)
(*   - the quantile regression notebook (Engel data),                      *)
(*   - the meta-analysis notebook.                                         *)
(* A notebook is a list of code cells, a cell a list of statements.  A     *)
(* top-to-bottom run evaluates the statements in order in one kernel.  The *)
(* state is the kernel: which statement is next, the names bound so far,   *)
(* the values of the data the notebooks compute themselves (the melted     *)
(* barley table, the quantile grid, the contingency tables), and a log of  *)
(* the calls made into the statistics library.  What the library computes  *)
(* (coefficients, standard errors, plots) is not modelled.                 *)
(*                                                                         *)
(* Numbers the notebooks compute with are modelled exactly: a decimal or a *)
(* proportion is a reduced fraction [n, d], so binary floating point       *)
(* rounding is outside the model.                                          *)
(***************************************************************************)
EXTENDS Integers, Sequences, FiniteSets, TLC

VARIABLES
    nb,       \* the notebook being run
    pc,       \* index in Program(nb) of the next statement to evaluate
    halted,   \* TRUE once an exception has reached the top of a cell
    nexc,     \* number of exceptions raised so far
    err,      \* the kind of the exception that halted the run, or "none"
    bound,    \* the names bound in the kernel's namespace
    env,      \* the values of the kernel variables the notebooks compute themselves
    trace,    \* the library calls made so far, in order
    vfs       \* an evaluation of the variance function class vf

vars == <<nb, pc, halted, nexc, err, bound, env, trace, vfs>>

-----------------------------------------------------------------------------
(* Exact rational arithmetic: [n |-> numerator, d |-> denominator > 0],     *)
(* always reduced.                                                          *)

Abs(x) == IF x < 0 THEN -x ELSE x

RECURSIVE GCD(_, _)
GCD(a, b) == IF b = 0 THEN a ELSE GCD(b, a % b)

Rat(n, d) ==
    LET g == GCD(Abs(n), Abs(d))
        s == IF d < 0 THEN -1 ELSE 1
    IN  [n |-> (s * n) \div g, d |-> (s * d) \div g]

RInt(k) == [n |-> k, d |-> 1]

RAdd(x, y) ==
    LET l == (x.d \div GCD(x.d, y.d)) * y.d
    IN  Rat(x.n * (l \div x.d) + y.n * (l \div y.d), l)

RNeg(x) == [n |-> -x.n, d |-> x.d]

RSub(x, y) == RAdd(x, RNeg(y))

RMul(x, y) ==
    LET a == Rat(x.n, y.d)
        b == Rat(y.n, x.d)
    IN  [n |-> a.n * b.n, d |-> a.d * b.d]

RDiv(x, y) == IF y.n < 0 THEN RMul(x, [n |-> -y.d, d |-> -y.n])
                         ELSE RMul(x, [n |-> y.d, d |-> y.n])

RECURSIVE RPow(_, _)
RPow(x, k) == IF k = 0 THEN RInt(1) ELSE RMul(x, RPow(x, k - 1))

RLe(x, y) == x.n * y.d <= y.n * x.d

-----------------------------------------------------------------------------
(* Statements and library-call events.                                      *)

\* A library call: kind is "data" (a data set is loaded or derived),
\* "construct" (a model object is built), "fit" (a fit method is called),
\* "estimate" (an estimation function is applied to data) or "show" (a
\* result is printed or plotted); obj is what the call produces, uses what
\* it is given.  A name the notebook binds more than once is written
\* name@line, the line being that of the binding meant.
E(kind, obj, uses) == [kind |-> kind, obj |-> obj, uses |-> uses]

\* A statement of a code cell: its cell, its first source line, the
\* operation it performs on the modelled data ("plain": none), the names it
\* reads and binds, and the library calls it makes, in order.
S(cell, line, op, reads, writes, ev) ==
    [cell |-> cell, line |-> line, op |-> op,
     reads |-> reads, writes |-> writes, ev |-> ev]

\* Names every kernel binds before the first cell.
Builtins == {"print", "len", "range", "dict"}


-----------------------------------------------------------------------------
(* The quasi-binomial regression notebook.                                  *)

\* The inline data literal: 10 lines of 9 decimals, each decimal written
\* with two fraction digits, here <<integer part, fraction digits>>.
raw ==
    <<
      <<<<0,5>>, <<0,0>>, <<1,25>>, <<2,50>>, <<5,50>>, <<1,0>>, <<5,0>>, <<5,0>>, <<17,50>>>>,
      <<<<0,0>>, <<0,5>>, <<1,25>>, <<0,50>>, <<1,0>>, <<5,0>>, <<0,10>>, <<10,0>>, <<25,0>>>>,
      <<<<0,0>>, <<0,5>>, <<2,50>>, <<0,1>>, <<6,0>>, <<5,0>>, <<5,0>>, <<5,0>>, <<42,50>>>>,
      <<<<0,10>>, <<0,30>>, <<16,60>>, <<3,0>>, <<1,10>>, <<5,0>>, <<5,0>>, <<5,0>>, <<50,0>>>>,
      <<<<0,25>>, <<0,75>>, <<2,50>>, <<2,50>>, <<2,50>>, <<5,0>>, <<50,0>>, <<25,0>>, <<37,50>>>>,
      <<<<0,5>>, <<0,30>>, <<2,50>>, <<0,1>>, <<8,0>>, <<5,0>>, <<10,0>>, <<75,0>>, <<95,0>>>>,
      <<<<0,50>>, <<3,0>>, <<0,0>>, <<25,0>>, <<16,50>>, <<10,0>>, <<50,0>>, <<50,0>>, <<62,50>>>>,
      <<<<1,30>>, <<7,50>>, <<20,0>>, <<55,0>>, <<29,50>>, <<5,0>>, <<25,0>>, <<75,0>>, <<95,0>>>>,
      <<<<1,50>>, <<1,0>>, <<37,50>>, <<5,0>>, <<20,0>>, <<50,0>>, <<50,0>>, <<75,0>>, <<95,0>>>>,
      <<<<1,50>>, <<12,70>>, <<26,25>>, <<40,0>>, <<43,50>>, <<75,0>>, <<75,0>>, <<75,0>>, <<95,0>>>>
    >>

\* The number a two-fraction-digit decimal literal denotes.
ParseDecimal(lit) == Rat(lit[1] * 100 + lit[2], 100)

\* pd.read_csv(raw, header=None): one row per line, one column per field,
\* columns labelled 0, 1, ... (column label c is position c + 1 of a row).
read_csv(text) ==
    [r \in DOMAIN text |-> [c \in DOMAIN text[r] |-> ParseDecimal(text[r][c])]]

\* df.melt() without id_vars: the columns are stacked one after the other,
\* so row i (from 0) of the result holds the value of column i div nrows,
\* row i mod nrows, and "variable" holds the column label.  The fields
\* "_row" and "_col" are bookkeeping of the model, not columns of the
\* table: the row and column (from 0) of the raw table the value came from.
melt(wide) ==
    LET nrows == Len(wide)
        ncols == Len(wide[1])
    IN  [p \in 1..(nrows * ncols) |->
            LET i == p - 1
                c == i \div nrows
                r == i % nrows
            IN  ("variable" :> c) @@ ("value" :> wide[r + 1][c + 1])
                @@ ("_row" :> r) @@ ("_col" :> c)]

\* np.floor of a non-negative quotient a / b, as an integer.
Floor(a, b) == Rat(a, b).n \div Rat(a, b).d

\* df["site"] = 1 + np.floor(df.index / 10).astype(int)
assign_site(long) ==
    [p \in DOMAIN long |-> ("site" :> 1 + Floor(p - 1, 10)) @@ long[p]]

\* The variety labels taken modulo the number of columns.
assign_variety_mod9(long) ==
    [p \in DOMAIN long |-> ("variety" :> 1 + ((p - 1) % 9)) @@ long[p]]

\* df["variety"] = 1 + (df.index % 10)
assign_variety(long) ==
    [p \in DOMAIN long |-> ("variety" :> 1 + ((p - 1) % 10)) @@ long[p]]

\* df.rename(columns={old: new})
rename(long, old, new) ==
    [p \in DOMAIN long |->
        [k \in ((DOMAIN long[p]) \ {old}) \cup {new} |->
            IF k = new THEN long[p][old] ELSE long[p][k]]]

\* df.drop(col, axis=1)
drop(long, col) ==
    [p \in DOMAIN long |-> [k \in (DOMAIN long[p]) \ {col} |-> long[p][k]]]

\* The percentages divided by 10.
div_blotch_by10(long) ==
    [p \in DOMAIN long |->
        ("blotch" :> RDiv(long[p]["blotch"], RInt(10))) @@ long[p]]

\* df["blotch"] /= 100
div_blotch(long) ==
    [p \in DOMAIN long |->
        ("blotch" :> RDiv(long[p]["blotch"], RInt(100))) @@ long[p]]

\* The statements of the notebook's code cells, in file order.
QuasiBinomialCells ==
    << S(1, 25, "plain", {}, {"sm"}, <<>>),
       S(1, 26, "plain", {}, {"np"}, <<>>),
       S(1, 27, "plain", {}, {"pd"}, <<>>),
       S(1, 28, "plain", {}, {"plt"}, <<>>),
       S(1, 29, "plain", {}, {"StringIO"}, <<>>),
       S(2, 46, "plain", {"StringIO"}, {"raw"}, <<E("data", "raw", {})>>),
       S(3, 75, "read_csv", {"pd", "raw"}, {"df"}, <<E("data", "df", {"raw"})>>),
       S(3, 76, "melt", {"df"}, {"df"}, <<>>),
       S(3, 77, "assign_site", {"np", "df"}, {}, <<>>),
       S(3, 78, "assign_variety", {"df"}, {}, <<>>),
       S(3, 79, "rename", {"df"}, {"df"}, <<>>),
       S(3, 80, "drop", {"df"}, {"df"}, <<>>),
       S(3, 81, "div_blotch", {"df"}, {}, <<>>),
       S(4, 98, "plain", {"sm", "df"}, {"model1"},
         <<E("construct", "model1", {"df"})>>),
       S(4, 101, "plain", {"model1"}, {"result1"},
         <<E("fit", "result1", {"model1"})>>),
       S(4, 102, "plain", {"print", "result1"}, {},
         <<E("show", "summary", {"result1"})>>),
       S(5, 122, "plain", {"plt"}, {}, <<>>),
       S(5, 123, "plain", {"plt"}, {}, <<>>),
       S(5, 124, "plain", {"plt", "result1"}, {},
         <<E("show", "plot", {"result1"})>>),
       S(5, 125, "plain", {"plt"}, {}, <<>>),
       S(5, 126, "plain", {"plt"}, {}, <<>>),
       S(6, 144, "plain", {"sm"}, {"vf"}, <<>>),
       S(7, 166, "plain", {"sm"}, {"bin"}, <<>>),
       S(7, 167, "plain", {"bin", "vf"}, {}, <<>>),
       S(7, 168, "plain", {"sm", "bin", "df"}, {"model2"},
         <<E("construct", "model2", {"df"})>>),
       S(7, 169, "plain", {"model2"}, {"result2"},
         <<E("fit", "result2", {"model2"})>>),
       S(7, 170, "plain", {"print", "result2"}, {},
         <<E("show", "summary", {"result2"})>>),
       S(8, 188, "plain", {"plt"}, {}, <<>>),
       S(8, 189, "plain", {"plt"}, {}, <<>>),
       S(8, 190, "plain", {"plt", "result2"}, {},
         <<E("show", "plot", {"result2"})>>),
       S(8, 191, "plain", {"plt"}, {}, <<>>),
       S(8, 192, "plain", {"plt"}, {}, <<>>) >>

\* class vf, __call__: mu ** 2 * (1 - mu) ** 2
vf_call(mu) == RMul(RPow(mu, 2), RPow(RSub(RInt(1), mu), 2))

\* A derivative with the cubic term written as a square.
vf_deriv_square(mu) ==
    RAdd(RSub(RMul(RInt(2), mu), RMul(RInt(6), RPow(mu, 2))),
         RMul(RInt(4), RPow(mu, 2)))

\* class vf, deriv: 2 * mu - 6 * mu ** 2 + 4 * mu ** 3
vf_deriv(mu) ==
    RAdd(RSub(RMul(RInt(2), mu), RMul(RInt(6), RPow(mu, 2))),
         RMul(RInt(4), RPow(mu, 3)))

-----------------------------------------------------------------------------
(* The quantile regression notebook.                                        *)

\* The least integer not below the rational x.
Ceil(x) == -((-x.n) \div x.d)

\* np.arange(start, stop, step): ceil((stop - start) / step) values,
\* start + i * step for i = 0, 1, ...
arange(start, stop, step) ==
    [p \in 1..Ceil(RDiv(RSub(stop, start), step)) |->
        RAdd(start, RMul(RInt(p - 1), step))]

\* The grid with the stop value .95, which np.arange leaves out.
quantiles_stop95 == arange(Rat(5, 100), Rat(95, 100), Rat(1, 10))

\* quantiles = np.arange(.05, .96, .1)
quantiles == arange(Rat(5, 100), Rat(96, 100), Rat(1, 10))

\* fit_model(q): the row [q, intercept, slope, lower, upper]; the four
\* estimates are the library's and are kept as opaque tokens.
fit_model(q) == <<q, "Intercept", "income", "lb", "ub">>

\* pd.DataFrame(models, columns=['q', 'a', 'b', 'lb', 'ub'])
DataFrame(rows) ==
    [p \in DOMAIN rows |->
        [q |-> rows[p][1], a |-> rows[p][2], b |-> rows[p][3],
         lb |-> rows[p][4], ub |-> rows[p][5]]]

\* The statements of the notebook's code cells, in file order.
QuantileRegressionCells ==
    << S(1, 261, "plain", {}, {"patsy"}, <<>>),
       S(1, 262, "plain", {}, {"np"}, <<>>),
       S(1, 263, "plain", {}, {"pd"}, <<>>),
       S(1, 264, "plain", {}, {"sm"}, <<>>),
       S(1, 265, "plain", {}, {"smf"}, <<>>),
       S(1, 266, "plain", {}, {"plt"}, <<>>),
       S(1, 267, "plain", {}, {"QuantReg"}, <<>>),
       S(1, 269, "plain", {"sm"}, {"data"}, <<E("data", "data", {})>>),
       S(1, 270, "plain", {"data"}, {}, <<>>),
       S(2, 289, "plain", {"smf", "data"}, {"mod"},
         <<E("construct", "mod", {"data"})>>),
       S(2, 290, "plain", {"mod"}, {"res"}, <<E("fit", "res", {"mod"})>>),
       S(2, 291, "plain", {"res"}, {}, <<E("show", "summary", {"res"})>>),
       S(3, 319, "arange", {"np"}, {"quantiles"}, <<>>),
       S(3, 320, "plain", {}, {"fit_model"}, <<>>),
       S(3, 325, "list_comprehension", {"fit_model", "quantiles", "mod"},
         {"models", "x"}, <<E("fit", "models", {"mod"})>>),
       S(3, 326, "DataFrame", {"pd", "models"}, {"models"}, <<>>),
       S(3, 328, "plain", {"smf", "data"}, {"ols"},
         <<E("construct", "ols_model", {"data"}),
           E("fit", "ols", {"ols_model"})>>),
       S(3, 329, "plain", {"ols"}, {"ols_ci"}, <<>>),
       S(3, 330, "plain", {"dict", "ols", "ols_ci"}, {"ols"}, <<>>),
       S(3, 335, "plain", {"models"}, {}, <<E("show", "print", {"models"})>>),
       S(3, 336, "plain", {"ols"}, {}, <<E("show", "print", {"ols"})>>),
       S(4, 359, "plain", {"np", "data"}, {"x"}, <<>>),
       S(4, 360, "plain", {}, {"get_y"}, <<>>),
       S(4, 362, "plain", {"plt"}, {"fig", "ax"}, <<>>),
       S(4, 364, "plot_loop", {"range", "models", "get_y", "x", "ax"},
         {"i", "y"}, <<E("show", "plot", {"models"})>>),
       S(4, 368, "plain", {"get_y", "ols", "x"}, {"y"}, <<>>),
       S(4, 370, "plain", {"ax", "x", "y"}, {}, <<E("show", "plot", {"ols"})>>),
       S(4, 371, "plain", {"ax", "data"}, {}, <<>>),
       S(4, 372, "plain", {"ax"}, {}, <<>>),
       S(4, 373, "plain", {"ax"}, {}, <<>>),
       S(4, 374, "plain", {"ax"}, {"legend"}, <<>>),
       S(4, 375, "plain", {"ax"}, {}, <<>>),
       S(4, 376, "plain", {"ax"}, {}, <<>>),
       S(5, 397, "plain", {}, {"rc"}, <<>>),
       S(5, 398, "plain", {"rc"}, {}, <<>>),
       S(5, 399, "plain", {"models"}, {"n"}, <<>>),
       S(5, 400, "plain", {"plt", "models"}, {"p1"},
         <<E("show", "plot", {"models"})>>),
       S(5, 401, "plain", {"plt", "models"}, {"p2"},
         <<E("show", "plot", {"models"})>>),
       S(5, 402, "plain", {"plt", "models"}, {"p3"},
         <<E("show", "plot", {"models"})>>),
       S(5, 403, "plain", {"plt", "models", "ols", "n"}, {"p4"},
         <<E("show", "plot", {"ols"})>>),
       S(5, 404, "plain", {"plt", "models", "ols", "n"}, {"p5"},
         <<E("show", "plot", {"ols"})>>),
       S(5, 405, "plain", {"plt", "models", "ols", "n"}, {"p6"},
         <<E("show", "plot", {"ols"})>>),
       S(5, 406, "plain", {"plt"}, {}, <<>>),
       S(5, 407, "plain", {"plt"}, {}, <<>>),
       S(5, 408, "plain", {"plt"}, {}, <<>>),
       S(5, 409, "plain", {"plt"}, {}, <<>>) >>

-----------------------------------------------------------------------------
(* The meta-analysis notebook.                                              *)

\* The header line of the inline table ss.
ss_header ==
    <<"study", "nei", "nci", "e1i", "c1i", "e2i", "c2i", "e3i", "c3i",
      "e4i", "c4i">>

\* The data lines of the inline table ss; an empty field is "NaN".
ss ==
    <<
      <<1, 19, 22, 16, 20, 11, 12, 4, 8, 4, 3>>,
      <<2, 34, 35, 22, 22, 18, 12, 15, 8, 15, 6>>,
      <<3, 72, 68, 44, 40, 21, 15, 10, 3, 3, 0>>,
      <<4, 22, 20, 19, 12, 14, 5, 5, 4, 2, 3>>,
      <<5, 70, 32, 62, 27, 42, 13, 26, 6, 15, 5>>,
      <<6, 183, 94, 130, 65, 80, 33, 47, 14, 30, 11>>,
      <<7, 26, 50, 24, 30, 13, 18, 5, 10, 3, 9>>,
      <<8, 61, 55, 51, 44, 37, 30, 19, 19, 11, 15>>,
      <<9, 36, 25, 30, 17, 23, 12, 13, 4, 10, 4>>,
      <<10, 45, 35, 43, 35, 19, 14, 8, 4, 6, 0>>,
      <<11, 246, 208, 169, 139, 106, 76, 67, 42, 51, 35>>,
      <<12, 386, 141, 279, 97, 170, 46, 97, 21, 73, 8>>,
      <<13, 59, 32, 56, 30, 34, 17, 21, 9, 20, 7>>,
      <<14, 45, 15, 42, 10, 18, 3, 9, 1, 9, 1>>,
      <<15, 14, 18, 14, 18, 13, 14, 12, 13, 9, 12>>,
      <<16, 26, 19, 21, 15, 12, 10, 6, 4, 5, 1>>,
      <<17, 74, 75, "NaN", "NaN", 42, 40, "NaN", "NaN", 23, 30>>
    >>

\* df3[[...]]: the named columns of each row, in the order named.
select(table, names) ==
    [r \in DOMAIN table |->
        [k \in DOMAIN names |->
            table[r][CHOOSE h \in DOMAIN ss_header : ss_header[h] = names[k]]]]

\* a.T of a two-dimensional array
T(a) == [j \in DOMAIN a[1] |-> [i \in DOMAIN a |-> a[i][j]]]

\* dta_c.T[i, j] = v: an assignment through the transposed view, which
\* writes element [j, i] of the array itself (indices from 0).
setitem_T(a, i, j, v) == [a EXCEPT ![j + 1][i + 1] = v]

\* The indices and value of the two assignments through dta_c.T.
setitem_args(line) ==
    CASE line = 382 -> <<0, 0, 18>>
      [] line = 383 -> <<1, 0, 22>>

\* elementwise x - y of two one-dimensional arrays
minus(x, y) == [s \in DOMAIN x |-> x[s] - y[s]]

\* np.column_stack(arrays): the one-dimensional arrays become the columns.
column_stack(arrays) == T(arrays)

\* The elements of a two-dimensional array in row-major order.
ravel(a) ==
    LET ncols == Len(a[1])
    IN  [p \in 1..(Len(a) * ncols) |->
            a[((p - 1) \div ncols) + 1][((p - 1) % ncols) + 1]]

\* a.reshape(d1, d2, -1): the row-major elements of a, laid out row-major
\* in d1 x d2 x k with k inferred from the size.
reshape(a, d1, d2) ==
    LET flat == ravel(a)
        k == Len(flat) \div (d1 * d2)
    IN  [i \in 1..d1 |-> [j \in 1..d2 |-> [s \in 1..k |->
            flat[(((i - 1) * d2 + (j - 1)) * k) + s]]]]

\* The reshape applied to counts itself, not to its transpose.
make_ctables_no_T(counts) == reshape(counts, 2, 2)

\* ctables = counts.T.reshape(2, 2, -1)
make_ctables(counts) == reshape(T(counts), 2, 2)

RECURSIVE SumOver(_, _)
SumOver(f, n) == IF n = 0 THEN 0 ELSE f[n] + SumOver(f, n - 1)

\* The sum over the first axis.
sum_axis0(a) ==
    [j \in DOMAIN a[1] |-> [s \in DOMAIN a[1][j] |->
        SumOver([i \in DOMAIN a |-> a[i][j][s]], Len(a))]]

\* a.sum(1) of a three-dimensional array: the sum over the second axis.
sum_axis1(a) ==
    [i \in DOMAIN a |-> [s \in DOMAIN a[i][1] |->
        SumOver([j \in DOMAIN a[i] |-> a[i][j][s]], Len(a[i]))]]

\* The statements of the notebook's code cells, in file order.
MetaAnalysisCells ==
    <<
       S(1, 32, "plain", {}, {},
         <<>>),
       S(2, 41, "plain", {}, {"np"},
         <<>>),
       S(2, 42, "plain", {}, {"pd"},
         <<>>),
       S(2, 43, "plain", {}, {"stats", "optimize"},
         <<>>),
       S(2, 45, "plain", {}, {"WLS"},
         <<>>),
       S(2, 46, "plain", {}, {"GLM"},
         <<>>),
       S(2, 48, "plain", {}, {"effectsize_smd", "effectsize_2proportions", "combine_effects", "_fit_tau_iterative", "_fit_tau_mm", "_fit_tau_iter_mm"},
         <<>>),
       S(2, 58, "plain", {"pd"}, {},
         <<>>),
       S(3, 74, "plain", {}, {"data"},
         <<E("data", "data", {})>>),
       S(3, 82, "plain", {}, {"colnames"},
         <<>>),
       S(3, 83, "plain", {"data"}, {"rownames"},
         <<>>),
       S(3, 84, "plain", {"pd", "data", "colnames"}, {"dframe1"},
         <<E("data", "dframe1", {"data"})>>),
       S(3, 85, "plain", {"rownames"}, {},
         <<>>),
       S(4, 94, "plain", {"np", "dframe1"}, {"mean2", "sd2", "nobs2", "mean1", "sd1", "nobs1"},
         <<>>),
       S(4, 97, "plain", {"dframe1"}, {"rownames"},
         <<>>),
       S(4, 98, "plain", {"rownames"}, {},
         <<>>),
       S(5, 107, "plain", {"np", "nobs1", "nobs2"}, {},
         <<>>),
       S(6, 123, "plain", {"effectsize_smd", "mean2", "sd2", "nobs2", "mean1", "sd1", "nobs1"}, {"eff", "var_eff"},
         <<E("data", "eff@123", {"dframe1"}), E("data", "var_eff@123", {"dframe1"})>>),
       S(7, 142, "plain", {"combine_effects", "eff", "var_eff", "rownames"}, {"res3"},
         <<E("estimate", "res3@142", {"eff@123", "var_eff@123"})>>),
       S(7, 146, "plain", {"res3", "np", "nobs1", "nobs2"}, {},
         <<>>),
       S(7, 147, "plain", {"print", "res3"}, {},
         <<E("show", "print", {"res3@142"})>>),
       S(8, 156, "plain", {"res3"}, {},
         <<E("show", "display", {"res3@142"})>>),
       S(9, 165, "plain", {"res3"}, {},
         <<E("show", "display", {"res3@142"})>>),
       S(10, 174, "plain", {"res3"}, {"fig"},
         <<E("show", "plot", {"res3@142"})>>),
       S(10, 175, "plain", {"fig"}, {},
         <<>>),
       S(10, 176, "plain", {"fig"}, {},
         <<>>),
       S(11, 185, "plain", {"combine_effects", "eff", "var_eff", "rownames"}, {"res3"},
         <<E("estimate", "res3@185", {"eff@123", "var_eff@123"})>>),
       S(11, 189, "plain", {"res3", "np", "nobs1", "nobs2"}, {},
         <<>>),
       S(11, 190, "plain", {"print", "res3"}, {},
         <<E("show", "print", {"res3@185"})>>),
       S(12, 208, "plain", {"combine_effects", "eff", "var_eff", "rownames"}, {"res4"},
         <<E("estimate", "res4", {"eff@123", "var_eff@123"})>>),
       S(12, 211, "plain", {"res4"}, {"res4_df"},
         <<>>),
       S(12, 212, "plain", {"print", "res4"}, {},
         <<E("show", "print", {"res4"})>>),
       S(12, 213, "plain", {"print", "res4"}, {},
         <<E("show", "print", {"res4"})>>),
       S(12, 214, "plain", {"res4"}, {"fig"},
         <<E("show", "plot", {"res4"})>>),
       S(14, 239, "plain", {"np"}, {"eff"},
         <<E("data", "eff@239", {})>>),
       S(14, 240, "plain", {"np"}, {"var_eff"},
         <<E("data", "var_eff@240", {})>>),
       S(14, 243, "plain", {}, {"rownames"},
         <<>>),
       S(15, 252, "plain", {"combine_effects", "eff", "var_eff", "rownames"}, {"res2_DL"},
         <<E("estimate", "res2_DL", {"eff@239", "var_eff@240"})>>),
       S(15, 253, "plain", {"print", "res2_DL"}, {},
         <<E("show", "print", {"res2_DL"})>>),
       S(15, 254, "plain", {"print", "res2_DL"}, {},
         <<E("show", "print", {"res2_DL"})>>),
       S(15, 255, "plain", {"res2_DL"}, {"fig"},
         <<E("show", "plot", {"res2_DL"})>>),
       S(15, 256, "plain", {"fig"}, {},
         <<>>),
       S(15, 257, "plain", {"fig"}, {},
         <<>>),
       S(16, 266, "plain", {"combine_effects", "eff", "var_eff", "rownames"}, {"res2_PM"},
         <<E("estimate", "res2_PM", {"eff@239", "var_eff@240"})>>),
       S(16, 267, "plain", {"print", "res2_PM"}, {},
         <<E("show", "print", {"res2_PM"})>>),
       S(16, 268, "plain", {"print", "res2_PM"}, {},
         <<E("show", "print", {"res2_PM"})>>),
       S(16, 269, "plain", {"res2_PM"}, {"fig"},
         <<E("show", "plot", {"res2_PM"})>>),
       S(16, 270, "plain", {"fig"}, {},
         <<>>),
       S(16, 271, "plain", {"fig"}, {},
         <<>>),
       S(18, 297, "plain", {}, {"io"},
         <<>>),
       S(19, 306, "plain", {}, {"ss"},
         <<E("data", "ss", {})>>),
       S(19, 325, "read_ss", {"pd", "io", "ss"}, {"df3"},
         <<E("data", "df3", {"ss"})>>),
       S(19, 326, "select", {"df3"}, {"df_12y"},
         <<E("data", "df_12y", {"df3"})>>),
       S(19, 328, "plain", {"df_12y"}, {"count1", "nobs1", "count2", "nobs2"},
         <<>>),
       S(19, 329, "values_T", {"df_12y"}, {"dta"},
         <<E("data", "dta", {"df_12y"})>>),
       S(20, 338, "plain", {"effectsize_2proportions", "dta"}, {"eff", "var_eff"},
         <<E("data", "eff@338", {"dta"}), E("data", "var_eff@338", {"dta"})>>),
       S(21, 347, "plain", {"eff", "var_eff"}, {},
         <<>>),
       S(22, 356, "plain", {"combine_effects", "eff", "var_eff"}, {"res5"},
         <<E("estimate", "res5@356", {"eff@338", "var_eff@338"})>>),
       S(22, 359, "plain", {"res5"}, {"res5_df"},
         <<>>),
       S(22, 360, "plain", {"print", "res5"}, {},
         <<E("show", "print", {"res5@356"})>>),
       S(22, 361, "plain", {"print", "res5"}, {},
         <<E("show", "print", {"res5@356"})>>),
       S(22, 362, "plain", {"print", "res5"}, {},
         <<E("show", "print", {"res5@356"})>>),
       S(22, 363, "plain", {"res5"}, {"fig"},
         <<E("show", "plot", {"res5@356"})>>),
       S(22, 364, "plain", {"fig"}, {},
         <<>>),
       S(22, 365, "plain", {"fig"}, {},
         <<>>),
       S(23, 381, "copy", {"dta"}, {"dta_c"},
         <<E("data", "dta_c", {"dta"})>>),
       S(23, 382, "setitem_T", {"dta_c"}, {},
         <<>>),
       S(23, 383, "setitem_T", {"dta_c"}, {},
         <<>>),
       S(23, 384, "plain", {"dta_c"}, {},
         <<>>),
       S(24, 393, "plain", {"effectsize_2proportions", "dta_c"}, {"eff", "var_eff"},
         <<E("data", "eff@393", {"dta_c"}), E("data", "var_eff@393", {"dta_c"})>>),
       S(24, 394, "plain", {"combine_effects", "eff", "var_eff"}, {"res5"},
         <<E("estimate", "res5@394", {"eff@393", "var_eff@393"})>>),
       S(24, 397, "plain", {"res5"}, {"res5_df"},
         <<>>),
       S(24, 398, "plain", {"print", "res5"}, {},
         <<E("show", "print", {"res5@394"})>>),
       S(24, 399, "plain", {"print", "res5"}, {},
         <<E("show", "print", {"res5@394"})>>),
       S(24, 400, "plain", {"res5"}, {"fig"},
         <<E("show", "plot", {"res5@394"})>>),
       S(24, 401, "plain", {"fig"}, {},
         <<>>),
       S(24, 402, "plain", {"fig"}, {},
         <<>>),
       S(25, 411, "plain", {"combine_effects", "eff", "var_eff"}, {"res5"},
         <<E("estimate", "res5@411", {"eff@393", "var_eff@393"})>>),
       S(25, 412, "plain", {"res5"}, {"res5_df"},
         <<>>),
       S(25, 413, "plain", {"print", "res5"}, {},
         <<E("show", "print", {"res5@411"})>>),
       S(25, 414, "plain", {"print", "res5"}, {},
         <<E("show", "print", {"res5@411"})>>),
       S(25, 415, "plain", {"res5"}, {"fig"},
         <<E("show", "plot", {"res5@411"})>>),
       S(25, 416, "plain", {"fig"}, {},
         <<>>),
       S(25, 417, "plain", {"fig"}, {},
         <<>>),
       S(26, 436, "plain", {}, {"GLM"},
         <<>>),
       S(27, 445, "plain", {"effectsize_2proportions", "dta_c"}, {"eff", "var_eff"},
         <<E("data", "eff@445", {"dta_c"}), E("data", "var_eff@445", {"dta_c"})>>),
       S(27, 446, "plain", {"combine_effects", "eff", "var_eff"}, {"res"},
         <<E("estimate", "res", {"eff@445", "var_eff@445"})>>),
       S(27, 447, "plain", {"res"}, {"res_frame"},
         <<>>),
       S(27, 448, "plain", {"print", "res_frame"}, {},
         <<E("show", "print", {"res"})>>),
       S(28, 464, "plain", {"var_eff"}, {"weights"},
         <<E("data", "weights", {"var_eff@445"})>>),
       S(28, 465, "plain", {"GLM", "eff", "np", "len", "weights"}, {"mod_glm"},
         <<E("construct", "mod_glm", {"eff@445", "weights"})>>),
       S(28, 466, "plain", {"mod_glm"}, {"res_glm"},
         <<E("fit", "res_glm@466", {"mod_glm"})>>),
       S(28, 467, "plain", {"print", "res_glm"}, {},
         <<E("show", "print", {"res_glm@466"})>>),
       S(29, 477, "plain", {"res_glm", "res_frame"}, {},
         <<E("show", "display", {"res_glm@466", "res"})>>),
       S(30, 495, "plain", {"mod_glm"}, {"res_glm"},
         <<E("fit", "res_glm@495", {"mod_glm"})>>),
       S(30, 496, "plain", {"print", "res_glm"}, {},
         <<E("show", "print", {"res_glm@495"})>>),
       S(31, 506, "plain", {"res_glm", "res_frame"}, {},
         <<E("show", "display", {"res_glm@495", "res"})>>),
       S(32, 528, "unpack", {"dta_c"}, {"t", "nt", "c", "nc"},
         <<>>),
       S(32, 529, "column_stack", {"np", "t", "nt", "c", "nc"}, {"counts"},
         <<E("data", "counts", {"dta_c"})>>),
       S(32, 530, "reshape", {"counts"}, {"ctables"},
         <<E("data", "ctables", {"counts"})>>),
       S(32, 531, "plain", {"ctables"}, {},
         <<>>),
       S(33, 540, "plain", {"counts"}, {},
         <<>>),
       S(34, 549, "plain", {"dta_c"}, {},
         <<>>),
       S(35, 558, "plain", {}, {"smstats"},
         <<>>),
       S(36, 567, "plain", {"smstats", "ctables", "np"}, {"st"},
         <<E("construct", "st", {"ctables"})>>),
       S(37, 583, "plain", {"st"}, {},
         <<E("show", "display", {"st"})>>),
       S(38, 592, "plain", {"st"}, {},
         <<E("show", "display", {"st"})>>),
       S(39, 601, "plain", {"st"}, {},
         <<E("show", "display", {"st"})>>),
       S(40, 610, "plain", {"print", "st"}, {},
         <<E("show", "print", {"st"})>>),
       S(41, 619, "plain", {"print", "st"}, {},
         <<E("show", "print", {"st"})>>),
       S(42, 637, "sum_axis1", {"ctables"}, {},
         <<>>),
       S(43, 646, "plain", {"nt", "nc"}, {},
         <<>>),
       S(44, 712, "plain", {"print", "st"}, {},
         <<E("show", "print", {"st"})>>) >>

-----------------------------------------------------------------------------
(* The kernel.                                                              *)

Notebooks == {"quasi_binomial", "quantile_regression", "metaanalysis1"}

\* The statements of seq with those at positions i and i + 1 exchanged.
SwapAt(seq, i) ==
    [k \in DOMAIN seq |->
        IF k = i THEN seq[i + 1] ELSE IF k = i + 1 THEN seq[i] ELSE seq[k]]

\* The meta-analysis notebook with the print of line 496 above the fit of
\* line 495 it reports.
Program_print_before_fit(nbk) ==
    CASE nbk = "quasi_binomial" -> QuasiBinomialCells
      [] nbk = "quantile_regression" -> QuantileRegressionCells
      [] nbk = "metaanalysis1" ->
            SwapAt(MetaAnalysisCells,
                   CHOOSE i \in DOMAIN MetaAnalysisCells :
                       MetaAnalysisCells[i].line = 495)
      [] OTHER -> <<>>

\* The meta-analysis notebook without the cell "import io".
Program_no_import_io(nbk) ==
    CASE nbk = "quasi_binomial" -> QuasiBinomialCells
      [] nbk = "quantile_regression" -> QuantileRegressionCells
      [] nbk = "metaanalysis1" ->
            SelectSeq(MetaAnalysisCells, LAMBDA st : st.line # 297)
      [] OTHER -> <<>>

\* The statements of a notebook, top to bottom.
Program(nbk) ==
    CASE nbk = "quasi_binomial" -> QuasiBinomialCells
      [] nbk = "quantile_regression" -> QuantileRegressionCells
      [] nbk = "metaanalysis1" -> MetaAnalysisCells
      [] OTHER -> <<>>

\* The first fit of the quasi-binomial notebook wrapped in try/except.
Catches_fit(nbk, i) ==
    /\ nbk = "quasi_binomial"
    /\ QuasiBinomialCells[i].line = 101

\* Whether statement i of a notebook lies in a try block whose handler
\* catches what the statement raises: no cell of any notebook holds a try
\* statement.
Catches(nbk, i) == FALSE

\* The kernel variables before the first cell: nothing computed yet.  acc is
\* the list a comprehension is building, fit_calls the arguments fit_model
\* has been called with, lines the rows of models the first plot has drawn
\* a line for, sums the value of ctables.sum(1).
EmptyEnv ==
    [df |-> <<>>, quantiles |-> <<>>, acc |-> <<>>, fit_calls |-> <<>>,
     models |-> <<>>, lines |-> <<>>, df3 |-> <<>>, df_12y |-> <<>>,
     dta |-> <<>>, dta_c |-> <<>>, t |-> <<>>, nt |-> <<>>, c |-> <<>>,
     nc |-> <<>>, counts |-> <<>>, ctables |-> <<>>, sums |-> <<>>]

\* No evaluation of the variance function.
NoVf == [mu |-> RInt(0), val |-> <<>>, der |-> <<>>]

Init ==
    /\ nb \in Notebooks
    /\ pc = 1
    /\ halted = FALSE
    /\ nexc = 0
    /\ err = "none"
    /\ bound = Builtins
    /\ env = EmptyEnv
    /\ trace = <<>>
    /\ vfs = NoVf

Stmt == Program(nb)[pc]

\* A statement is left to evaluate and no exception has halted the run.
Running == ~halted /\ pc <= Len(Program(nb))

\* The next statement performs op and every name it reads is bound.
Ready(op) == Running /\ Stmt.op = op /\ Stmt.reads \subseteq bound

\* The statement completes: its names are bound, its calls are logged, the
\* kernel variables become newenv and the next statement is next.
Step(newenv) ==
    /\ pc' = pc + 1
    /\ bound' = bound \cup Stmt.writes
    /\ trace' = trace \o Stmt.ev
    /\ env' = newenv
    /\ UNCHANGED <<nb, halted, nexc, err, vfs>>

\* A statement that only binds names and calls the library.
Plain == Ready("plain") /\ Step(env)

ReadCsv == Ready("read_csv") /\ Step([env EXCEPT !.df = read_csv(raw)])

Melt == Ready("melt") /\ Step([env EXCEPT !.df = melt(env.df)])

AssignSite ==
    Ready("assign_site") /\ Step([env EXCEPT !.df = assign_site(env.df)])

AssignVariety ==
    Ready("assign_variety") /\ Step([env EXCEPT !.df = assign_variety(env.df)])

Rename ==
    Ready("rename") /\ Step([env EXCEPT !.df = rename(env.df, "value", "blotch")])

Drop == Ready("drop") /\ Step([env EXCEPT !.df = drop(env.df, "variable")])

DivBlotch == Ready("div_blotch") /\ Step([env EXCEPT !.df = div_blotch(env.df)])

Arange == Ready("arange") /\ Step([env EXCEPT !.quantiles = quantiles])

\* models = [fit_model(x) for x in quantiles]: one call of fit_model per
\* element, in order; the name models is bound when the list is complete.
ListComprehensionNext ==
    /\ Ready("list_comprehension")
    /\ Len(env.acc) < Len(env.quantiles)
    /\ LET x == env.quantiles[Len(env.acc) + 1]
       IN  env' = [env EXCEPT !.acc = Append(@, fit_model(x)),
                              !.fit_calls = Append(@, x)]
    /\ trace' = trace \o Stmt.ev
    /\ UNCHANGED <<nb, pc, halted, nexc, err, bound, vfs>>

ListComprehensionDone ==
    /\ Ready("list_comprehension")
    /\ Len(env.acc) = Len(env.quantiles)
    /\ pc' = pc + 1
    /\ bound' = bound \cup Stmt.writes
    /\ env' = [env EXCEPT !.models = env.acc]
    /\ UNCHANGED <<nb, halted, nexc, err, trace, vfs>>

MakeDataFrame ==
    Ready("DataFrame") /\ Step([env EXCEPT !.models = DataFrame(env.models)])

\* for i in range(models.shape[0]): one line drawn per row of models.
PlotLoopNext ==
    /\ Ready("plot_loop")
    /\ Len(env.lines) < Len(env.models)
    /\ env' = [env EXCEPT !.lines = Append(@, Len(@))]
    /\ bound' = bound \cup Stmt.writes
    /\ trace' = trace \o Stmt.ev
    /\ UNCHANGED <<nb, pc, halted, nexc, err, vfs>>

PlotLoopDone ==
    /\ Ready("plot_loop")
    /\ Len(env.lines) = Len(env.models)
    /\ pc' = pc + 1
    /\ UNCHANGED <<nb, halted, nexc, err, bound, env, trace, vfs>>

ReadSs == Ready("read_ss") /\ Step([env EXCEPT !.df3 = ss])

Select ==
    /\ Ready("select")
    /\ Step([env EXCEPT
                !.df_12y = select(env.df3, <<"e2i", "nei", "c2i", "nci">>)])

ValuesT == Ready("values_T") /\ Step([env EXCEPT !.dta = T(env.df_12y)])

Copy == Ready("copy") /\ Step([env EXCEPT !.dta_c = env.dta])

SetItemT ==
    /\ Ready("setitem_T")
    /\ LET a == setitem_args(Stmt.line)
       IN  Step([env EXCEPT !.dta_c = setitem_T(env.dta_c, a[1], a[2], a[3])])

\* t, nt, c, nc = dta_c
Unpack ==
    /\ Ready("unpack")
    /\ Step([env EXCEPT !.t = env.dta_c[1], !.nt = env.dta_c[2],
                        !.c = env.dta_c[3], !.nc = env.dta_c[4]])

\* counts = np.column_stack([t, nt - t, c, nc - c])
ColumnStack ==
    /\ Ready("column_stack")
    /\ Step([env EXCEPT !.counts =
                column_stack(<<env.t, minus(env.nt, env.t),
                               env.c, minus(env.nc, env.c)>>)])

Reshape == Ready("reshape") /\ Step([env EXCEPT !.ctables = make_ctables(env.counts)])

SumAxis1 == Ready("sum_axis1") /\ Step([env EXCEPT !.sums = sum_axis1(env.ctables)])

\* The next statement raises: the library call in it fails, or a name it
\* reads is unbound.  A handler around the statement would swallow the
\* exception and the run would go on after it; without one the exception
\* reaches the top of the cell and the run halts, the kernel as it was.
Raise ==
    /\ Running
    /\ nexc' = nexc + 1
    /\ IF Catches(nb, pc)
         THEN /\ pc' = pc + 1
              /\ UNCHANGED <<halted, err>>
         ELSE /\ halted' = TRUE
              /\ err' = IF Stmt.reads \subseteq bound
                          THEN "Exception" ELSE "NameError"
              /\ pc' = pc
    /\ UNCHANGED <<nb, bound, env, trace, vfs>>

Next ==
    \/ Plain
    \/ ReadCsv
    \/ Melt
    \/ AssignSite
    \/ AssignVariety
    \/ Rename
    \/ Drop
    \/ DivBlotch
    \/ Arange
    \/ ListComprehensionNext
    \/ ListComprehensionDone
    \/ MakeDataFrame
    \/ PlotLoopNext
    \/ PlotLoopDone
    \/ ReadSs
    \/ Select
    \/ ValuesT
    \/ Copy
    \/ SetItemT
    \/ Unpack
    \/ ColumnStack
    \/ Reshape
    \/ SumAxis1
    \/ Raise

Spec == Init /\ [][Next]_vars

-----------------------------------------------------------------------------
(* Evaluations of the variance function class vf on its own.                *)

MaxNum == 6
MaxDen == 4
MaxStep == 3

\* The arguments tried: the fractions n / d in lowest terms.
MuSet == {Rat(n, d) : n \in -MaxNum..MaxNum, d \in 1..MaxDen}

\* The step sizes of the difference quotients.
StepSet == {Rat(1, k) : k \in 1..MaxStep}

InitVf ==
    /\ nb = "none"
    /\ pc = 1
    /\ halted = FALSE
    /\ nexc = 0
    /\ err = "none"
    /\ bound = Builtins
    /\ env = EmptyEnv
    /\ trace = <<>>
    /\ vfs \in {[mu |-> m, val |-> <<>>, der |-> <<>>] : m \in MuSet}

\* vf()(mu)
VfCall ==
    /\ vfs.val = <<>>
    /\ vfs' = [vfs EXCEPT !.val = <<vf_call(vfs.mu)>>]
    /\ UNCHANGED <<nb, pc, halted, nexc, err, bound, env, trace>>

\* vf().deriv(mu)
VfDeriv ==
    /\ vfs.der = <<>>
    /\ vfs' = [vfs EXCEPT !.der = <<vf_deriv(vfs.mu)>>]
    /\ UNCHANGED <<nb, pc, halted, nexc, err, bound, env, trace>>

NextVf ==
    \/ VfCall
    \/ VfDeriv

SpecVf == InitVf /\ [][NextVf]_vars

-----------------------------------------------------------------------------
(* The properties checked.                                                  *)

\* The position in a notebook of the statement that starts at a source line.
Idx(nbk, line) ==
    CHOOSE i \in DOMAIN Program(nbk) : Program(nbk)[i].line = line

\* The run of notebook nbk has completed the statement at the line.
After(nbk, line) == nb = nbk /\ pc > Idx(nbk, line)

\* The labels occurring in a column of the barley table.
Labels(col) == {env.df[p][col] : p \in DOMAIN env.df}

\* The percentage of the raw table an observation of the barley table came from.
RawOf(obs) == ParseDecimal(raw[obs["_row"] + 1][obs["_col"] + 1])

\* C1: after the data-preparation cell the barley table has 10 distinct
\* site labels and 9 distinct variety labels, and every observation's site
\* label is 1 + the row of the raw table its value came from and its
\* variety label 1 + the column (rows are sites, columns are varieties).
C1_SiteIsRowVarietyIsColumn ==
    After("quasi_binomial", 81) =>
        /\ Cardinality(Labels("site")) = 10
        /\ Cardinality(Labels("variety")) = 9
        /\ \A p \in DOMAIN env.df :
              /\ env.df[p].site = 1 + env.df[p]["_row"]
              /\ env.df[p].variety = 1 + env.df[p]["_col"]

\* C2: the prepared barley table is a full unreplicated two-way design: it
\* has exactly 90 observations, and every combination of a site label and a
\* variety label that occur is the combination of exactly one observation.
C2_FullUnreplicatedDesign ==
    After("quasi_binomial", 81) =>
        /\ Len(env.df) = 90
        /\ \A s \in Labels("site") : \A v \in Labels("variety") :
              Cardinality({p \in DOMAIN env.df :
                  env.df[p].site = s /\ env.df[p].variety = v}) = 1

C2_Witness ==
    /\ After("quasi_binomial", 81)
    /\ Len(env.df) = 90
    /\ Cardinality(Labels("site")) > 1
    /\ Cardinality(Labels("variety")) > 1

\* C3: from the end of the data-preparation cell to the end of the run
\* every blotch value is its raw percentage divided by 100, once, and lies
\* in [0, 1]; every raw percentage lies in [0, 100].
C3_BlotchIsProportion ==
    After("quasi_binomial", 81) =>
        \A p \in DOMAIN env.df :
            /\ env.df[p].blotch = RDiv(RawOf(env.df[p]), RInt(100))
            /\ RLe(RInt(0), env.df[p].blotch)
            /\ RLe(env.df[p].blotch, RInt(1))
            /\ RLe(RInt(0), RawOf(env.df[p]))
            /\ RLe(RawOf(env.df[p]), RInt(100))

C3_Witness ==
    /\ After("quasi_binomial", 81)
    /\ \E p \in DOMAIN env.df :
          /\ RawOf(env.df[p]) = Rat(95, 1)
          /\ env.df[p].blotch = Rat(95, 100)

\* The five-point difference quotient of vf_call at mu with step h, which
\* is the derivative exactly for a polynomial of degree at most 4:
\* (-f(mu + 2h) + 8 f(mu + h) - 8 f(mu - h) + f(mu - 2h)) / (12 h).
FivePoint(mu, h) ==
    LET h2 == RMul(RInt(2), h)
        up == RSub(RMul(RInt(8), vf_call(RAdd(mu, h))), vf_call(RAdd(mu, h2)))
        dn == RSub(RMul(RInt(8), vf_call(RSub(mu, h))), vf_call(RSub(mu, h2)))
    IN  RDiv(RSub(up, dn), RMul(RInt(12), h))

\* C4: vf is mu^2 (1 - mu)^2, that is mu^2 - 2 mu^3 + mu^4, and vf.deriv is
\* its derivative: deriv(mu) = 2 mu (1 - mu) (1 - 2 mu), which is the
\* derivative the difference quotients of vf give.
C4_DerivIsDerivativeOfVf ==
    LET mu == vfs.mu
        one == RInt(1)
    IN  /\ vfs.val # <<>> =>
              vfs.val[1] = RAdd(RSub(RPow(mu, 2), RMul(RInt(2), RPow(mu, 3))),
                                RPow(mu, 4))
        /\ vfs.der # <<>> =>
              /\ vfs.der[1] = RMul(RMul(RInt(2), mu),
                                   RMul(RSub(one, mu),
                                        RSub(one, RMul(RInt(2), mu))))
              /\ \A h \in StepSet : vfs.der[1] = FivePoint(mu, h)

C4_Witness ==
    /\ vfs.mu = Rat(1, 3)
    /\ vfs.val = <<Rat(4, 81)>>
    /\ vfs.der = <<Rat(4, 27)>>

\* C5: the quantile grid has exactly the 10 values 0.05, 0.15, ..., 0.95,
\* all strictly between 0 and 1; fit_model is called once per grid value,
\* in increasing order; the models table has one row per grid value in
\* that order; and the first plot draws exactly 10 lines, one per row.
C5_TenQuantileFits ==
    nb = "quantile_regression" =>
        /\ After(nb, 319) =>
              /\ Len(env.quantiles) = 10
              /\ \A i \in 1..10 :
                    /\ env.quantiles[i] = Rat(10 * i - 5, 100)
                    /\ env.quantiles[i].n > 0
                    /\ env.quantiles[i].n < env.quantiles[i].d
        /\ env.fit_calls = SubSeq(env.quantiles, 1, Len(env.fit_calls))
        /\ After(nb, 325) => env.fit_calls = env.quantiles
        /\ After(nb, 326) =>
              /\ Len(env.models) = Len(env.quantiles)
              /\ \A i \in DOMAIN env.models : env.models[i].q = env.quantiles[i]
        /\ After(nb, 364) =>
              /\ Len(env.lines) = 10
              /\ \A i \in DOMAIN env.lines : env.lines[i] = i - 1

C5_Witness ==
    /\ After("quantile_regression", 364)
    /\ Len(env.fit_calls) = 10
    /\ Len(env.lines) = 10

\* C6: for every stratum s the two row sums of table s, as ctables.sum(1)
\* gives them, are the treatment sample size nt[s] and the control sample
\* size nc[s].
C6_RowSumsAreSampleSizes ==
    After("metaanalysis1", 637) =>
        /\ Len(env.sums) = 2
        /\ DOMAIN env.sums[1] = DOMAIN env.nt
        /\ DOMAIN env.sums[2] = DOMAIN env.nc
        /\ \A s \in DOMAIN env.nt :
              /\ env.sums[1][s] = env.nt[s]
              /\ env.sums[2][s] = env.nc[s]
              /\ env.sums[1][s] = env.ctables[1][1][s] + env.ctables[1][2][s]
              /\ env.sums[2][s] = env.ctables[2][1][s] + env.ctables[2][2][s]

C6_Witness ==
    /\ After("metaanalysis1", 637)
    /\ Len(env.nt) = 17
    /\ env.sums[1][1] = 19
    /\ env.sums[2][17] = 75

\* C7: ctables is a 2 x 2 x k array with k the number of studies, 17, in
\* the order of the studies, and table s is
\* [[t[s], nt[s] - t[s]], [c[s], nc[s] - c[s]]], which read row by row is
\* counts[s].
C7_CtablesAreStudyTables ==
    After("metaanalysis1", 530) =>
        /\ Len(env.ctables) = 2
        /\ \A i \in 1..2 :
              /\ Len(env.ctables[i]) = 2
              /\ \A j \in 1..2 : Len(env.ctables[i][j]) = 17
        /\ Len(ss) = 17
        /\ Len(env.counts) = 17
        /\ \A s \in 1..17 :
              /\ <<env.ctables[1][1][s], env.ctables[1][2][s],
                   env.ctables[2][1][s], env.ctables[2][2][s]>> = env.counts[s]
              /\ env.counts[s] = <<env.t[s], env.nt[s] - env.t[s],
                                   env.c[s], env.nc[s] - env.c[s]>>
              /\ env.t[s] = env.dta_c[1][s]
              /\ env.nt[s] = env.dta_c[2][s]
              /\ env.c[s] = env.dta_c[3][s]
              /\ env.nc[s] = env.dta_c[4][s]

C7_Witness ==
    /\ After("metaanalysis1", 530)
    /\ env.ctables[1][1][1] = 18
    /\ env.ctables[1][2][1] = 1
    /\ env.ctables[2][1][1] = 12
    /\ env.ctables[2][2][1] = 10

\* C8: when a statement raises, the run halts there with the kernel as it
\* was (no handler catches the exception), and once halted nothing more is
\* evaluated: no later statement, no retry.
C8_HaltsAtFirstException ==
    [][/\ nexc' # nexc =>
             /\ halted'
             /\ pc' = pc
             /\ bound' = bound
             /\ env' = env
             /\ trace' = trace
       /\ halted => UNCHANGED vars]_vars

C8_Witness ==
    /\ halted
    /\ nexc = 1
    /\ pc > 1
    /\ pc < Len(Program(nb))
    /\ bound # Builtins

\* The kinds of call that produce what a call of the given kind uses: a
\* fit uses a constructed model; a construction, an estimation and a
\* derived data set use data; a print or plot shows the result of a fit or
\* an estimation, or the statistics of a constructed table.
Producers(kind) ==
    CASE kind = "fit" -> {"construct"}
      [] kind \in {"construct", "estimate", "data"} -> {"data"}
      [] kind = "show" -> {"fit", "estimate", "construct"}

\* C9: every fit call comes after the construction of the model it fits,
\* every model construction after the loading of the data it uses, and
\* every print or plot of a result after the fit that produced the result.
C9_LoadConstructFitShow ==
    \A i \in DOMAIN trace :
        \A u \in trace[i].uses :
            \E j \in 1..(i - 1) :
                /\ trace[j].obj = u
                /\ trace[j].kind \in Producers(trace[i].kind)

C9_Witness ==
    /\ nb = "metaanalysis1"
    /\ pc > Len(Program(nb))
    /\ \E i \in DOMAIN trace : trace[i].kind = "fit"
    /\ \E i \in DOMAIN trace : trace[i].kind = "show"

\* C10: every name a statement reads has been bound by an earlier
\* statement, so no statement raises a NameError.
C10_NoUnboundRead ==
    /\ err # "NameError"
    /\ Running => Stmt.reads \subseteq bound

C10_Witness ==
    /\ nb = "metaanalysis1"
    /\ pc > Len(Program(nb))
    /\ ~halted
    /\ {"io", "smstats", "nt", "nc", "dta_c"} \subseteq bound

=============================================================================
